---- MODULE Spec2Model ----
(***************************************************************************)
(* Model of visualize_layout.py: a single sequential script that loads a   *)
(* graph layout (nodes with x, y; edges as [src, tgt, type]), prints       *)
(* statistics and renders three panels into layout_visualization.png.      *)
(*                                                                         *)
(* Coordinates are fixed-point numbers in hundredths (x = 4 is 0.04) and   *)
(* arithmetic on them is exact; squared distances stand for distances      *)
(* (sqrt is monotone).  An uncaught Python exception ends the process:     *)
(* pc = "failed".                                                          *)
(***************************************************************************)
EXTENDS Integers, Sequences, FiniteSets, TLC

VARIABLES
    nodes,            \* data["nodes"]: sequence of <<x, y>> (label = index)
    edges,            \* data["edges"]: sequence of <<src, tgt, ty>>
    hashSeed,         \* the process's str-hash secret (PYTHONHASHSEED)
    run,              \* which invocation of the script this is (1, 2, ..)
    prevHues,         \* hues computed by the previous invocation (<<>> if none)
    pc,               \* next statement of the script
    out,              \* console lines printed so far by this process
    image,            \* layout_visualization.png written by this process
    err,              \* uncaught exception: "none", "ValueError", "IndexError"
    failedAt,         \* pc at which the exception was raised ("none" if none)
    errEdge,          \* index (1-based) of the edge whose indexing raised, or 0
    degrees,          \* np.zeros(len(nodes)) then += 1 per endpoint
    k,                \* position of the degree loop in edges (1-based)
    max_degree,
    overlaps,
    dists,            \* sequence of [i, j, d2], 0-based node indices
    edge_lens,        \* sequence of squared edge lengths
    lines,            \* panel 1 segments: sequence of <<src', tgt', colour>>
    sizes,            \* per node <<num, den>>: 2 + 30*deg/max_degree; den 0 = nan
    hues,             \* per node hash(str(i)) % 360
    mask,             \* per node: strictly inside the core window
    lines2,           \* panel 2 segments
    sorted_by_degree, \* np.argsort(degrees)[::-1], 0-based node indices
    labeled,          \* panel 2 annotations, in annotation order
    top15             \* panel 3 annotations

vars == <<nodes, edges, hashSeed, run, prevHues, pc, out, image, err, failedAt,
          errEdge, degrees, k, max_degree, overlaps, dists, edge_lens, lines,
          sizes, hues, mask, lines2, sorted_by_degree, labeled, top15>>

(***************************************************************************)
(* Bounds of the model and constants of the program.                       *)
(***************************************************************************)
MaxNodes == 3
MaxEdges == 2
MaxRuns == 2
SampleCap == 500
LabelCap == 30
TopCap == 15
HueMod == 360
HashWidth == 2^15

Points == { <<0, 0>>, <<0, 4>>, <<1000, 1000>> }
TypeTags == { 0 }
Seeds == { 0, 1 }

(***************************************************************************)
(* Arrays and numpy semantics.                                             *)
(***************************************************************************)
N == Len(nodes)
xs == [i \in 1..N |-> nodes[i][1]]
ys == [i \in 1..N |-> nodes[i][2]]

Min2(a, b) == IF a <= b THEN a ELSE b

RECURSIVE Sum(_)
Sum(a) == IF a = <<>> THEN 0 ELSE Head(a) + Sum(Tail(a))

SumSq(a) == Sum([i \in 1..Len(a) |-> a[i] * a[i]])

\* ndarray.min()/max() of a non-empty array (0 where there is no value)
ArrMin(a) == IF a = <<>> THEN 0 ELSE CHOOSE v \in {a[i] : i \in 1..Len(a)} : \A i \in 1..Len(a) : v <= a[i]
ArrMax(a) == IF a = <<>> THEN 0 ELSE CHOOSE v \in {a[i] : i \in 1..Len(a)} : \A i \in 1..Len(a) : v >= a[i]

\* variant: a reduction that returns nan instead of raising (np.nanmin-like)
ZeroSizeNeverRaises(a) == FALSE
\* ndarray.min()/max() raise ValueError on a zero-size array
ZeroSizeRaises(a) == Len(a) = 0

\* variant: an index check that rejects negative indices
InRangeNonNegative(i, n) == 0 <= i /\ i < n
\* a[i] with a Python int i on an array of length n: valid for -n <= i < n,
\* negative i counts from the end; anything else raises IndexError
InRange(i, n) == -n <= i /\ i < n
Wrap(i, n) == IF i < 0 THEN i + n ELSE i

\* variant: both endpoints bumped in one indexed assignment
\* (degrees[[src, tgt]] += 1), which counts a repeated index once
IncrOnce(d, src, tgt) ==
    [j \in 1..Len(d) |-> IF j = Wrap(src, Len(d)) + 1 \/ j = Wrap(tgt, Len(d)) + 1
                         THEN d[j] + 1 ELSE d[j]]
\* degrees[i] += 1
Incr(d, i) == [d EXCEPT ![Wrap(i, Len(d)) + 1] = @ + 1]
\* the body of the degree loop for an edge with both endpoints in range
IncrBoth(d, src, tgt) == Incr(Incr(d, src), tgt)

\* N*N times the population variance of a (np.std squared)
ScaledVar(a) == Len(a) * SumSq(a) - Sum(a) * Sum(a)

Line(tag, vals, nan) == [tag |-> tag, vals |-> vals, nan |-> nan]

(***************************************************************************)
(* Overlap detection (lines 44-48).                                        *)
(***************************************************************************)
\* round(float(v), 1): hundredths to tenths, ties to even
Round1(v) ==
    LET q == v \div 10
        r == v % 10
    IN  IF r < 5 THEN q
        ELSE IF r > 5 THEN q + 1
        ELSE IF q % 2 = 0 THEN q ELSE q + 1

Key(p) == <<Round1(p[1]), Round1(p[2])>>

\* Counter: a dict in insertion order, as a sequence of [key, n]
CounterAdd(c, key) ==
    IF \E i \in 1..Len(c) : c[i].key = key
    THEN [i \in 1..Len(c) |-> IF c[i].key = key THEN [c[i] EXCEPT !.n = @ + 1] ELSE c[i]]
    ELSE Append(c, [key |-> key, n |-> 1])

RECURSIVE CounterFrom(_, _)
CounterFrom(c, ps) == IF ps = <<>> THEN c ELSE CounterFrom(CounterAdd(c, Key(Head(ps))), Tail(ps))

CounterOf(ps) == CounterFrom(<<>>, ps)

\* variant: a count that compares each node with its neighbour in the
\* sequence only (itertools.groupby without sorting)
OverlapCountAdjacent(ps) ==
    Cardinality({i \in 1..Len(ps) : /\ i < Len(ps)
                                    /\ Key(ps[i]) = Key(ps[i + 1])
                                    /\ (i = 1 \/ Key(ps[i - 1]) # Key(ps[i]))})
\* sum(1 for c in rounded.values() if c > 1)
OverlapCount(ps) ==
    LET c == CounterOf(ps) IN Cardinality({i \in 1..Len(c) : c[i].n > 1})

(***************************************************************************)
(* Distances (lines 50-67): squared, in hundredths squared.                *)
(***************************************************************************)
D2(i, j) == (xs[i + 1] - xs[j + 1]) * (xs[i + 1] - xs[j + 1])
          + (ys[i + 1] - ys[j + 1]) * (ys[i + 1] - ys[j + 1])

RECURSIVE DistRow(_, _, _)
DistRow(i, j, m) ==
    IF j >= m THEN <<>>
    ELSE <<[i |-> i, j |-> j, d2 |-> D2(i, j)]>> \o DistRow(i, j + 1, m)

RECURSIVE DistAll(_, _)
DistAll(i, m) == IF i >= m THEN <<>> ELSE DistRow(i, i + 1, m) \o DistAll(i + 1, m)

D2Of(d) == [i \in 1..Len(d) |-> d[i].d2]

\* first edge (1-based) of es whose src or tgt is not a valid index, or 0
FirstBadEdge(es, n) ==
    LET bad == {i \in 1..Len(es) : ~InRange(es[i][1], n) \/ ~InRange(es[i][2], n)}
    IN  IF bad = {} THEN 0 ELSE CHOOSE i \in bad : \A j \in bad : i <= j

EdgeD2(e) == D2(Wrap(e[1], N), Wrap(e[2], N))

(***************************************************************************)
(* Panel 1 (lines 69-93).                                                  *)
(***************************************************************************)
\* edge_colors_map.get(ty, fallback)
EdgeColor(ty) == IF ty \in {0, 1, 2} THEN ty ELSE 9

Segment(e) == <<Wrap(e[1], N), Wrap(e[2], N), EdgeColor(e[3])>>

\* str(i) for i >= 0: its decimal digits as character codes
RECURSIVE Str(_)
Str(i) == IF i < 10 THEN <<48 + i>> ELSE Str(i \div 10) \o <<48 + (i % 10)>>

\* hash() of a str: a keyed hash under the process's secret.  CPython keys
\* SipHash with a secret drawn at interpreter start; a 15-bit keyed
\* quadratic mix stands for it here: what matters is that the value depends
\* on the secret.
RECURSIVE HashFrom(_, _)
HashFrom(h, s) ==
    IF s = <<>> THEN h ELSE HashFrom((h * h + 31 * h + 131 * Head(s)) % HashWidth, Tail(s))

StrHash(seed, s) == HashFrom((seed * 40503 + 17) % HashWidth, s)

Hue(seed, i) == StrHash(seed, Str(i)) % HueMod

\* 2 + (degrees / max_degree) * 30 as a fraction; den 0 is 0/0 (nan)
Size(d, m) == <<2 * m + 30 * d, m>>

(***************************************************************************)
(* Panel 2 (lines 95-127).                                                 *)
(***************************************************************************)
\* abs(xs[i] - cx) < radius and abs(ys[i] - cy) < radius, with cx = mean(xs),
\* radius = 2 * max(std(xs), std(ys)); both sides scaled by N and squared
Inside(i) ==
    LET r2 == 4 * (IF ScaledVar(xs) >= ScaledVar(ys) THEN ScaledVar(xs) ELSE ScaledVar(ys))
        dx == N * xs[i + 1] - Sum(xs)
        dy == N * ys[i + 1] - Sum(ys)
    IN  dx * dx < r2 /\ dy * dy < r2

Reverse(s) == [i \in 1..Len(s) |-> s[Len(s) + 1 - i]]

\* np.argsort(d): some permutation of 0..n-1 that puts d in ascending order;
\* the default kind is not stable, so any order of equal elements may result
ArgsortResults(d) ==
    LET n == Len(d)
    IN  {p \in [1..n -> 0..(n - 1)] :
            /\ \A i, j \in 1..n : i # j => p[i] # p[j]
            /\ \A i \in 1..n : i < n => d[p[i] + 1] <= d[p[i + 1] + 1]}

\* the annotate loop: in order, those inside the window while labeled < cap
RECURSIVE TakeLabels(_, _, _, _)
TakeLabels(order, m, cap, acc) ==
    IF order = <<>> THEN acc
    ELSE IF m[Head(order) + 1] /\ Len(acc) < cap
         THEN TakeLabels(Tail(order), m, cap, Append(acc, Head(order)))
         ELSE TakeLabels(Tail(order), m, cap, acc)

InView(e, m) == m[Wrap(e[1], N) + 1] /\ m[Wrap(e[2], N) + 1]

\* s[:n]
Prefix(s, n) == SubSeq(s, 1, Min2(n, Len(s)))

RECURSIVE SelectSegments(_, _)
SelectSegments(es, m) ==
    IF es = <<>> THEN <<>>
    ELSE IF InView(Head(es), m)
         THEN <<Segment(Head(es))>> \o SelectSegments(Tail(es), m)
         ELSE SelectSegments(Tail(es), m)

(***************************************************************************)
(* The script, statement by statement.                                     *)
(***************************************************************************)
\* the indices an edge of the file may carry for n nodes: the first node and
\* both sides of both ends of the range numpy accepts
EdgeIdx(n) == {-(n + 1), -n, 0, n - 1, n}

SeqsUpTo(S, n) == UNION {[1..m -> S] : m \in 0..n}

input == <<nodes, edges, hashSeed, run, prevHues>>
stats == <<degrees, k, max_degree, overlaps, dists, edge_lens>>
panels == <<lines, sizes, hues, mask, lines2, sorted_by_degree, labeled, top15>>

Init ==
    /\ nodes \in SeqsUpTo(Points, MaxNodes)
    /\ edges \in SeqsUpTo(EdgeIdx(Len(nodes)) \X EdgeIdx(Len(nodes)) \X TypeTags, MaxEdges)
    /\ hashSeed \in Seeds
    /\ run = 1
    /\ prevHues = <<>>
    /\ pc = "load"
    /\ out = <<>>
    /\ image = FALSE
    /\ err = "none"
    /\ failedAt = "none"
    /\ errEdge = 0
    /\ degrees = <<>>
    /\ k = 0
    /\ max_degree = 0
    /\ overlaps = 0
    /\ dists = <<>>
    /\ edge_lens = <<>>
    /\ lines = <<>>
    /\ sizes = <<>>
    /\ hues = <<>>
    /\ mask = <<>>
    /\ lines2 = <<>>
    /\ sorted_by_degree = <<>>
    /\ labeled = <<>>
    /\ top15 = <<>>

\* an uncaught exception of kind e, raised by edge number ek (0: by no edge)
Raise(e, ek) ==
    /\ pc' = "failed"
    /\ err' = e
    /\ failedAt' = pc
    /\ errEdge' = ek

Goto(l) ==
    /\ pc' = l
    /\ UNCHANGED <<err, failedAt, errEdge>>

\* lines 14-24: load the file, print the two counts
LoadAndCount ==
    /\ pc = "load"
    /\ out' = out \o << Line("Nodes", <<Len(nodes)>>, FALSE),
                        Line("Edges", <<Len(edges)>>, FALSE) >>
    /\ Goto("range")
    /\ UNCHANGED <<input, image, stats, panels>>

\* lines 25-29: the f-string of line 25 evaluates xs.min() first
RangeStats ==
    /\ pc = "range"
    /\ IF ZeroSizeRaises(xs)
       THEN /\ Raise("ValueError", 0)
            /\ UNCHANGED out
       ELSE /\ out' = out \o
                 << Line("XRange", <<ArrMin(xs), ArrMax(xs)>>, FALSE),
                    Line("YRange", <<ArrMin(ys), ArrMax(ys)>>, FALSE),
                    \* std of an empty array is nan
                    Line("Std", <<ScaledVar(xs), ScaledVar(ys)>>, N = 0),
                    Line("AnyNaN", <<0>>, FALSE),
                    Line("AnyInf", <<0>>, FALSE) >>
            /\ Goto("degree_init")
    /\ UNCHANGED <<input, image, stats, panels>>

\* line 32
DegreeInit ==
    /\ pc = "degree_init"
    /\ degrees' = [i \in 1..N |-> 0]
    /\ k' = 1
    /\ Goto("degree_loop")
    /\ UNCHANGED <<input, out, image, max_degree, overlaps, dists, edge_lens, panels>>

\* lines 33-35, one edge
DegreeStep ==
    /\ pc = "degree_loop"
    /\ k <= Len(edges)
    /\ LET src == edges[k][1]
           tgt == edges[k][2]
       IN  IF ~InRange(src, N)
           THEN /\ Raise("IndexError", k)
                /\ UNCHANGED <<degrees, k>>
           ELSE IF ~InRange(tgt, N)
           THEN /\ Raise("IndexError", k)
                /\ degrees' = Incr(degrees, src)
                /\ UNCHANGED k
           ELSE /\ degrees' = IncrBoth(degrees, src, tgt)
                /\ k' = k + 1
                /\ Goto("degree_loop")
    /\ UNCHANGED <<input, out, image, max_degree, overlaps, dists, edge_lens, panels>>

\* lines 36-42
DegreeStats ==
    /\ pc = "degree_loop"
    /\ k > Len(edges)
    /\ IF ZeroSizeRaises(degrees)
       THEN /\ Raise("ValueError", 0)
            /\ UNCHANGED <<out, max_degree>>
       ELSE /\ max_degree' = ArrMax(degrees)
            /\ out' = out \o
                 << Line("MaxDegree", <<ArrMax(degrees)>>, FALSE),
                    Line("Isolated", << Cardinality({i \in 1..N : degrees[i] = 0}),
                                        Cardinality({i \in 1..N : degrees[i] = 1}) >>, FALSE) >>
            /\ Goto("overlap")
    /\ UNCHANGED <<input, image, degrees, k, overlaps, dists, edge_lens, panels>>

\* lines 44-48
OverlapStats ==
    /\ pc = "overlap"
    /\ overlaps' = OverlapCount(nodes)
    /\ out' = Append(out, Line("Overlaps", <<OverlapCount(nodes)>>, FALSE))
    /\ Goto("pairwise")
    /\ UNCHANGED <<input, image, degrees, k, max_degree, dists, edge_lens, panels>>

\* lines 50-59
PairwiseStats ==
    /\ pc = "pairwise"
    /\ dists' = DistAll(0, Min2(SampleCap, N))
    /\ IF ZeroSizeRaises(dists')
       THEN /\ Raise("ValueError", 0)
            /\ UNCHANGED out
       ELSE /\ out' = Append(out, Line("Pairwise", <<ArrMin(D2Of(dists'))>>, FALSE))
            /\ Goto("edge_lens")
    /\ UNCHANGED <<input, image, degrees, k, max_degree, overlaps, edge_lens, panels>>

\* lines 61-67
EdgeLenStats ==
    /\ pc = "edge_lens"
    /\ LET bad == FirstBadEdge(edges, N)
           lens == [i \in 1..Len(edges) |-> EdgeD2(edges[i])]
       IN  IF bad # 0
           THEN /\ Raise("IndexError", bad)
                /\ edge_lens' = [i \in 1..(bad - 1) |-> EdgeD2(edges[i])]
                /\ UNCHANGED out
           ELSE IF ZeroSizeRaises(lens)
           THEN /\ Raise("ValueError", 0)
                /\ edge_lens' = lens
                /\ UNCHANGED out
           ELSE /\ edge_lens' = lens
                /\ out' = Append(out, Line("EdgeLens", <<ArrMin(lens), ArrMax(lens)>>, FALSE))
                /\ Goto("panel1")
    /\ UNCHANGED <<input, image, degrees, k, max_degree, overlaps, dists, panels>>

\* lines 69-93
Panel1 ==
    /\ pc = "panel1"
    /\ lines' = [i \in 1..Len(edges) |-> Segment(edges[i])]
    /\ sizes' = [i \in 1..N |-> Size(degrees[i], max_degree)]
    /\ hues' = [i \in 1..N |-> Hue(hashSeed, i - 1)]
    /\ Goto("panel2")
    /\ UNCHANGED <<input, out, image, stats, mask, lines2, sorted_by_degree, labeled, top15>>

\* lines 95-127
Panel2 ==
    /\ pc = "panel2"
    /\ mask' = [i \in 1..N |-> Inside(i - 1)]
    /\ lines2' = SelectSegments(edges, mask')
    /\ \E p \in ArgsortResults(degrees) : sorted_by_degree' = Reverse(p)
    /\ labeled' = TakeLabels(sorted_by_degree', mask', LabelCap, <<>>)
    /\ Goto("panel3")
    /\ UNCHANGED <<input, out, image, stats, lines, sizes, hues, top15>>

\* lines 129-142
Panel3 ==
    /\ pc = "panel3"
    /\ top15' = Prefix(sorted_by_degree, TopCap)
    /\ Goto("save")
    /\ UNCHANGED <<input, out, image, stats, lines, sizes, hues, mask, lines2,
                   sorted_by_degree, labeled>>

\* lines 144-145
Save ==
    /\ pc = "save"
    /\ image' = TRUE
    /\ Goto("saved")
    /\ UNCHANGED <<input, out, stats, panels>>

\* lines 146-147
Finish ==
    /\ pc = "saved"
    /\ out' = Append(out, Line("Saved", <<>>, FALSE))
    /\ Goto("done")
    /\ UNCHANGED <<input, image, stats, panels>>

\* the script is invoked again on the unchanged file: a new process, with
\* its own hash secret
Rerun ==
    /\ pc \in {"done", "failed"}
    /\ run < MaxRuns
    /\ run' = run + 1
    /\ hashSeed' \in Seeds
    /\ prevHues' = hues
    /\ UNCHANGED <<nodes, edges>>
    /\ pc' = "load"
    /\ out' = <<>>
    /\ image' = FALSE
    /\ err' = "none"
    /\ failedAt' = "none"
    /\ errEdge' = 0
    /\ degrees' = <<>>
    /\ k' = 0
    /\ max_degree' = 0
    /\ overlaps' = 0
    /\ dists' = <<>>
    /\ edge_lens' = <<>>
    /\ lines' = <<>>
    /\ sizes' = <<>>
    /\ hues' = <<>>
    /\ mask' = <<>>
    /\ lines2' = <<>>
    /\ sorted_by_degree' = <<>>
    /\ labeled' = <<>>
    /\ top15' = <<>>

Step ==
    \/ LoadAndCount
    \/ RangeStats
    \/ DegreeInit
    \/ DegreeStep
    \/ DegreeStats
    \/ OverlapStats
    \/ PairwiseStats
    \/ EdgeLenStats
    \/ Panel1
    \/ Panel2
    \/ Panel3
    \/ Save
    \/ Finish

Next == Step \/ Rerun

Spec == Init /\ [][Next]_vars

(***************************************************************************)
(* Properties.                                                             *)
(***************************************************************************)
Ended == pc \in {"done", "failed"}
Rendering == pc \in {"panel1", "panel2", "panel3", "save", "saved", "done"}
Printed(tag) == \E i \in 1..Len(out) : out[i].tag = tag
Tags == [i \in 1..Len(out) |-> out[i].tag]

\* every edge names nodes of the file: 0 <= src, tgt < N
EdgesInFile == \A i \in 1..Len(edges) : /\ 0 <= edges[i][1] /\ edges[i][1] < N
                                         /\ 0 <= edges[i][2] /\ edges[i][2] < N

\* how many of the 2 * n endpoints of the first n edges are node i (0-based)
Endpoints(i, n) ==
    Cardinality({j \in 1..n : edges[j][1] = i}) + Cardinality({j \in 1..n : edges[j][2] = i})

DegreePassDone == k > Len(edges)

\* C1: on a dataset whose edges all have source and target in [0, N), the
\* degree of a node is at every point of the degree pass the number of
\* endpoints of the edges handled so far that are this node (an edge adds 1
\* for its source and 1 for its target, a self-loop 2), and once the pass is
\* over the degrees add up to twice the number of edges.
DegreeSumIsTwiceEdges ==
    (EdgesInFile /\ k >= 1) =>
        /\ Len(degrees) = N
        /\ \A i \in 0..(N - 1) : degrees[i + 1] = Endpoints(i, Min2(k - 1, Len(edges)))
        /\ DegreePassDone => Sum(degrees) = 2 * Len(edges)

DegreeSumWitness ==
    /\ EdgesInFile
    /\ DegreePassDone
    /\ Len(edges) = 2
    /\ edges[1][1] = edges[1][2]
    /\ edges[2][1] # edges[2][2]
    /\ degrees[edges[1][1] + 1] >= 2
    /\ Sum(degrees) = 4

\* C2: with N > 0 nodes and no edge the run does not fail, and when it is
\* over the image is written with one and the same finite size for every
\* node.
NoEdgesStillRenders ==
    (N > 0 /\ edges = <<>>) =>
        /\ pc # "failed"
        /\ pc = "done" => /\ image
                          /\ \A i \in 1..N : sizes[i] = sizes[1] /\ sizes[i][2] # 0

\* edge i has a source or target that is no node index of the file
BadEdge(i) == \/ edges[i][1] < 0 \/ edges[i][1] >= N
              \/ edges[i][2] < 0 \/ edges[i][2] >= N

\* C3: on a non-empty node sequence, an edge with a source or target outside
\* [0, N) keeps the run from rendering and from writing the image, and the
\* run fails with IndexError at the first such edge.
OutOfRangeEdgeFails ==
    (N >= 1 /\ \E i \in 1..Len(edges) : BadEdge(i)) =>
        /\ ~Rendering
        /\ ~image
        /\ pc = "failed" =>
              /\ err = "IndexError"
              /\ errEdge = CHOOSE i \in 1..Len(edges) :
                               BadEdge(i) /\ \A j \in 1..(i - 1) : ~BadEdge(j)

FullReport == << "Nodes", "Edges", "XRange", "YRange", "Std", "AnyNaN", "AnyInf",
                 "MaxDegree", "Isolated", "Overlaps", "Pairwise", "EdgeLens", "Saved" >>

\* C4: a run that is over has produced the full report and the image, or it
\* has failed and has produced no line of the report and no image.
NoPartialOutput ==
    /\ pc = "done" => Tags = FullReport /\ image
    /\ pc = "failed" => out = <<>> /\ ~image

\* C5: on an empty node sequence the run fails at the range statistics with
\* the ValueError of min() on an empty array; all that has been printed by
\* then is the two counts: no statistic value, no nan; and no later step
\* runs, so the image is not written.
EmptyNodesFailFast ==
    N = 0 =>
        /\ pc \in {"load", "range", "failed"}
        /\ pc = "failed" => /\ failedAt = "range"
                            /\ err = "ValueError"
                            /\ Tags = <<"Nodes", "Edges">>
        /\ \A i \in 1..Len(out) : out[i].tag \in {"Nodes", "Edges"} /\ ~out[i].nan
        /\ ~image
        /\ degrees = <<>> /\ sizes = <<>>

EmptyNodesWitness ==
    /\ N = 0
    /\ Len(edges) = 2
    /\ pc = "failed"
    /\ failedAt = "range"

\* C6: a second run of the script on the same file gives every node the hue
\* the first run gave it, whatever the hash secrets of the two processes.
HueSameAcrossRuns ==
    (run >= 2 /\ prevHues # <<>> /\ hues # <<>>) => hues = prevHues

\* the sequence ps reordered by p
Permuted(ps, p) == [i \in 1..Len(ps) |-> ps[p[i]]]
Perms(n) == {p \in [1..n -> 1..n] : \A i, j \in 1..n : i # j => p[i] # p[j]}

\* C7: the overlap count the run reports is the count for every reordering
\* of the node sequence, and it is the number of rounded positions that hold
\* more than one node.
OverlapOrderInvariant ==
    Printed("Overlaps") =>
        /\ \A p \in Perms(N) : OverlapCount(Permuted(nodes, p)) = overlaps
        /\ overlaps = Cardinality({b \in {Key(nodes[i]) : i \in 1..N} :
                                     Cardinality({i \in 1..N : Key(nodes[i]) = b}) > 1})

OverlapWitness ==
    /\ Printed("Overlaps")
    /\ N = 3
    /\ overlaps = 1
    /\ nodes[1] # nodes[3]
    /\ Key(nodes[1]) = Key(nodes[3])
    /\ Key(nodes[1]) # Key(nodes[2])

InWindow == {i \in 0..(N - 1) : mask[i + 1]}
LabeledSet == {labeled[i] : i \in 1..Len(labeled)}

\* C8: panel 2 labels exactly min(30, K) nodes of the K inside the window,
\* all of them inside, none of lower degree than an unlabelled node inside,
\* and the degree-descending order keeps nodes of equal degree in their
\* order in the node sequence.
LabelsTopStable ==
    pc \in {"panel3", "save", "saved", "done"} =>
        /\ Len(labeled) = Min2(LabelCap, Cardinality(InWindow))
        /\ Cardinality(LabeledSet) = Len(labeled)
        /\ LabeledSet \subseteq InWindow
        /\ \A u \in InWindow \ LabeledSet : \A l \in LabeledSet :
               degrees[u + 1] <= degrees[l + 1]
        /\ \A i, j \in 1..N :
               (i < j /\ degrees[sorted_by_degree[i] + 1] = degrees[sorted_by_degree[j] + 1])
                   => sorted_by_degree[i] < sorted_by_degree[j]

SamplePairs == {<<i, j>> \in (0..(N - 1)) \X (0..(N - 1)) : i < j /\ j < Min2(SampleCap, N)}

\* C9: on a non-empty dataset with edges inside the file, a run that is over
\* has sampled exactly one distance for each pair i < j < min(500, N) and
\* has printed the min/median/mean line for the sample.
PairwiseSampleReported ==
    (N >= 1 /\ EdgesInFile /\ Ended) =>
        /\ {<<dists[i].i, dists[i].j>> : i \in 1..Len(dists)} = SamplePairs
        /\ Len(dists) = Cardinality(SamplePairs)
        /\ Printed("Pairwise")

\* every edge index is one numpy accepts: -N <= i <= N - 1
Renderable ==
    /\ N >= 2
    /\ edges # <<>>
    /\ \A i \in 1..Len(edges) : \A c \in 1..2 : -N <= edges[i][c] /\ edges[i][c] <= N - 1

\* C10: the run saves the image and prints the last line exactly when
\* N >= 2, there is an edge, and every edge index is in [-N, N-1]; otherwise
\* it fails in a statistics step (which one is fixed by the input) with no
\* rendering step run and no image; and a run that is not over can always
\* take its next step.
RunsToSaveIffRenderable ==
    /\ Rendering => Renderable
    /\ pc = "done" => image /\ Tags = FullReport
    /\ image => Renderable
    /\ pc = "failed" =>
          /\ ~Renderable
          /\ panels = <<(<<>>), (<<>>), (<<>>), (<<>>), (<<>>), (<<>>), (<<>>), (<<>>)>>
          /\ failedAt = (IF N = 0 THEN "range"
                         ELSE IF \E i \in 1..Len(edges) : \E c \in 1..2 :
                                     edges[i][c] < -N \/ edges[i][c] > N - 1
                              THEN "degree_loop"
                         ELSE IF N = 1 THEN "pairwise"
                         ELSE "edge_lens")
    /\ ~Ended => ENABLED Step

RunsToSaveWitness ==
    /\ pc = "done"
    /\ N = 3
    /\ Len(edges) = 2
    /\ edges[1][1] = -N
    /\ edges[2][2] = N - 1
    /\ image

====
